---- MODULE Spec2Model ----
(***************************************************************************)
(* A model of python/qemu/aqmp/protocol.py (AsyncProtocol): the session    *)
(* handles, the outgoing queue, the reader/writer loop tasks, the join     *)
(* (gather) future and the disconnect task, run by an asyncio event loop.  *)
(*                                                                         *)
(* The event loop is modelled as it works: `ready` is the loop's FIFO of   *)
(* callbacks (call_soon); the action at the head runs a task from one      *)
(* suspension point to the next, atomically.  What the code awaits from    *)
(* outside (the connection, receive, a suspended send, drain, wait_closed) *)
(* completes by an event action that chooses the outcome and appends the   *)
(* task's wakeup to `ready`.  CancelledError is a BaseException (Python    *)
(* >= 3.8) and assert statements are enabled (the interpreter's default).  *)
(***************************************************************************)
EXTENDS Integers, Sequences, FiniteSets, TLC

\* ---- bounds of the model ----
MaxConnects == 1
MaxDisconnects == 2
MaxMsgs == 2
MaxRecvs == 1
NumUsers == 2

SeqConnects == 2
SeqDisconnects == 2
SeqMsgs == 1
SeqRecvs == 0
InConnects == 1
InDisconnects == 1
InMsgs == 1
InRecvs == 3
FairConnects == 1
FairDisconnects == 1
FairMsgs == 2
FairRecvs == 1
MaxEvents == 3
NumEventKinds == 2
MaxMark == 2
MaxSize == 2
MaxFlushes == 2

Users == 1..NumUsers
\* the callers that call connect (every caller calls disconnect)
Connectors == {1}

\* The bounds of a run: how many connect and disconnect calls are made, how
\* many messages are enqueued and received, which callers make calls, and
\* whether messages are enqueued once a disconnect task exists.
Bounds ==
    [conn |-> MaxConnects, disc |-> MaxDisconnects, msgs |-> MaxMsgs,
     recvs |-> MaxRecvs, callers |-> Users, late |-> TRUE]
\* The fault instances the primitives can raise (identity = name): Fr by
\* the receive primitive or the on-message hook, Fw by the send primitive,
\* Ff by drain, Fc by wait_closed (which can also raise the transport's
\* fault that the receive or the send primitive raised), Fx by the
\* connection attempt, Fs by the session phase of the protocol layer.
Faults == {"Fr", "Fw", "Ff", "Fc", "Fx", "Fs"}

VARIABLES
    reader,        \* self._reader: transport id, 0 = None
    writer,        \* self._writer: transport id, 0 = None
    outgoing,      \* self._outgoing: the queued messages
    unfinished,    \* self._outgoing._unfinished_tasks
    getters,       \* tasks blocked in self._outgoing.get()
    joiners,       \* tasks blocked in self._outgoing.join()
    reader_task,   \* self._reader_task: task id, 0 = None
    writer_task,   \* self._writer_task
    bh_tasks,      \* self._bh_tasks: gather id, 0 = None
    dc_task,       \* self._dc_task
    tasks,         \* every task ever created (asyncio.Task)
    gathers,       \* every gather future ever created
    transports,    \* every transport ever opened: "open", "closing", or
                   \* what wait_closed gave once it is closed
    ready,         \* the event loop's FIFO of ready callbacks
    users,         \* the caller tasks and the call each is in
    ev,            \* what the last step did (observation only)
    hist           \* counters and logs (observation only): the calls made,
                   \* the messages enqueued and received; of the session
                   \* under way, the messages enqueued (enq), passed to the
                   \* send primitive (sent) and still owed by a graceful
                   \* teardown (owed), the messages the reader task of the
                   \* session received (arr) and passed to the on-message
                   \* hook (disp), and how many invocations of the hook by
                   \* that task have not returned (open); whether a
                   \* cycle is complete and no connect began since (over:
                   \* a connect call failed, or a disconnect call that
                   \* the connecting caller made after a connect ended)
VARIABLES
    facade,        \* the synchronous facade (sync_qmp.py): the event queue
                   \* self._aqmp.events._queue (q), how many events have
                   \* arrived (n), and the last call: its name, its wait
                   \* argument, the queue it found (q0), how it ended
                   \* (rk), what it returned (ret) and whether it
                   \* suspended on an empty queue (waited)
    xport          \* a StreamWriter's transport during util.flush: its
                   \* water marks, its buffered bytes, the position of
                   \* flush and its locals

vars == <<reader, writer, outgoing, unfinished, getters, joiners, reader_task,
          writer_task, bh_tasks, dc_task, tasks, gathers, transports, ready,
          users, ev, hist, facade, xport>>

\* The whole state as one record, so that a handler's statements compose.
Cur ==
    [reader |-> reader, writer |-> writer, outgoing |-> outgoing,
     unfinished |-> unfinished, getters |-> getters, joiners |-> joiners,
     reader_task |-> reader_task, writer_task |-> writer_task,
     bh_tasks |-> bh_tasks, dc_task |-> dc_task, tasks |-> tasks,
     gathers |-> gathers, transports |-> transports, ready |-> ready,
     users |-> users, ev |-> ev, hist |-> hist]

\* A done task or gather that nothing refers to any more is garbage: the
\* model forgets its result.
DeadTask == [kind |-> "dead", pc |-> "done", res |-> "none", mc |-> FALSE,
             inq |-> FALSE, io |-> "none", msg |-> 0, aw |-> 0, cbs |-> <<>>,
             h |-> FALSE, lf |-> FALSE, i0 |-> FALSE, first |-> "none"]

DeadGather == [r |-> 0, w |-> 0, st |-> "done", res |-> "none", nfin |-> 0,
               cbs |-> <<>>]

LiveTasks(s) ==
    {s.reader_task, s.writer_task, s.dc_task}
    \cup {s.users[u].d : u \in DOMAIN s.users}
    \cup {s.ready[i].c : i \in {j \in DOMAIN s.ready : s.ready[j].k = "gcb"}}
    \cup {s.tasks[x].aw : x \in {y \in DOMAIN s.tasks :
                                     s.tasks[y].pc \in {"waitw", "waitr"}}}
    \cup UNION {{s.gathers[g].r, s.gathers[g].w} :
                   g \in {h \in DOMAIN s.gathers :
                             s.gathers[h].st # "done"}}

LiveGathers(s) ==
    {s.bh_tasks}
    \cup {s.users[u].aw : u \in {v \in DOMAIN s.users :
                                     s.users[v].pc = "bhwait"}}
    \cup {s.ready[i].id : i \in {j \in DOMAIN s.ready : s.ready[j].k = "gcb"}}
    \cup {g \in DOMAIN s.gathers :
            \E x \in DOMAIN s.tasks :
               /\ s.tasks[x].pc # "done"
               /\ x \in {s.gathers[g].r, s.gathers[g].w}}

\* the garbage at the end of a table is dropped (its ids are used again)
RECURSIVE DropDead(_, _)
DropDead(seq, dead) ==
    IF seq # <<>> /\ seq[Len(seq)] = dead
    THEN DropDead(SubSeq(seq, 1, Len(seq) - 1), dead)
    ELSE seq

Collect(s) ==
    LET lt == LiveTasks(s)
        lg == LiveGathers(s)
    IN  [s EXCEPT !.tasks = DropDead([x \in DOMAIN s.tasks |->
                                IF s.tasks[x].pc = "done" /\ x \notin lt
                                THEN DeadTask ELSE s.tasks[x]], DeadTask),
                  !.gathers = DropDead([g \in DOMAIN s.gathers |->
                                  IF g \notin lg THEN DeadGather
                                  ELSE s.gathers[g]], DeadGather)]

Commit(t) ==
    \E s \in {t} :
    /\ reader' = s.reader
    /\ writer' = s.writer
    /\ outgoing' = s.outgoing
    /\ unfinished' = s.unfinished
    /\ getters' = s.getters
    /\ joiners' = s.joiners
    /\ reader_task' = s.reader_task
    /\ writer_task' = s.writer_task
    /\ bh_tasks' = s.bh_tasks
    /\ dc_task' = s.dc_task
    /\ tasks' = s.tasks
    /\ gathers' = s.gathers
    /\ transports' = s.transports
    /\ ready' = s.ready
    /\ users' = s.users
    /\ ev' = s.ev
    /\ hist' = s.hist
    /\ UNCHANGED <<facade, xport>>

\* a step after which a task or gather can have become garbage
CommitCollect(t) == \E s \in {t} : Commit(Collect(s))

\* What a step can leave in ev.  t = "begin": the connect of caller u began,
\* idle0 says whether the session was IDLE, re whether the connect follows
\* a complete cycle.  t = "ret": the call op of caller
\* u is over with outcome out (cause and phase are those of a ConnectError);
\* err and eph are the fault that made a connect fail and the phase it was
\* in, dout the outcome of the disconnect() the call ran, first the outcome
\* of the first call that ended on the same disconnect task, rres, wres and
\* gres the results of the reader task, the writer task and the gather as
\* _wait_disconnect found them before _cleanup, dres the result of the
\* disconnect task.  t = "cancel": the disconnect
\* task cancelled the writer task; mode is "graceful" or "forced", h and
\* drained say whether the disconnect was requested by a caller while both
\* loop tasks were running and whether every message queued at that moment
\* has been passed to the send primitive (hist.owed holds those that have
\* not been), flushed whether flush() returned.  t = "stopr": the disconnect
\* task cancelled the reader task; t = "close": it went on to close the
\* transport and to wait for it; rdone and wdone say whether the reader and
\* the writer handle were empty or held a task that is done.  start: the
\* step is the first one of a disconnect task; force is its error_pathway
\* and lf says that a loop's exception handler scheduled it.  td: the writer
\* loop called task_done(), which returned ("ok") or raised ("ValueError").
\* joined: the wait of a disconnect task for the queue is over (the queue
\* resolved it); alls says whether every message put on the queue of the
\* session has by then been taken by the writer loop for its send attempt.
\* fault: the fault a loop task re-raised in this step.  cl: _cleanup ran
\* and returned ("ok") or failed its assert ("AssertionError").  cerr: the
\* fault that wait_closed raised in the disconnect task; cres is the result
\* the disconnect task then ended with, rex and wex what the reader and the
\* writer task ended with ("none": no fault, or not done).  gset: the
\* result a gather was resolved with in this step; gn is the number of its
\* children whose done callback has run, gc the result of the child whose
\* callback resolved it and go the result of its other child ("pending":
\* not done).  i0 (with start, and with t = "ret"): the disconnect task
\* was scheduled by a disconnect call on a session that was IDLE, with no
\* connect call in progress.
NoEv == [t |-> "none", u |-> 0, op |-> "none", out |-> "none", cause |-> "none",
         phase |-> "none", err |-> "none", eph |-> "none", idle0 |-> FALSE,
         dout |-> "none", first |-> "none", rres |-> "none", wres |-> "none",
         gres |-> "none", dres |-> "none", mode |-> "none", h |-> FALSE,
         drained |-> FALSE, flushed |-> FALSE, re |-> FALSE,
         rdone |-> FALSE, wdone |-> FALSE, start |-> FALSE, force |-> FALSE,
         lf |-> FALSE, td |-> "none", joined |-> FALSE, alls |-> FALSE,
         fault |-> "none", cl |-> "none", cerr |-> "none", cres |-> "none",
         rex |-> "none", wex |-> "none", gset |-> "none", gn |-> 0,
         gc |-> "none", go |-> "none", i0 |-> FALSE]

IdleUser == [pc |-> "idle", op |-> "none", inq |-> FALSE, io |-> "none",
             err |-> "none", phase |-> "none", aw |-> 0, d |-> 0]

\* The facade before any call, with an empty event queue.
NoCall == [q |-> <<>>, n |-> 0, call |-> "none", wait |-> "none",
           q0 |-> <<>>, rk |-> "none", ret |-> <<>>, waited |-> FALSE,
           fell |-> FALSE]

\* A transport with asyncio's default water marks, scaled down (the high
\* mark and a quarter of it), nothing buffered, its connection not lost
\* and no flush under way.  Of a
\* flush: pc is its position ("drain": suspended in writer.drain(); "woken":
\* the drain waiter was resolved and flush has not resumed yet), llow and
\* lhigh are its locals low and high, exc is what its drain raises once it
\* resumes or what flush raised, out is how the last flush ended, low0 and
\* high0 are the marks of the transport when it was called (observation
\* only) and nflush counts the calls.
NoFlush == [low |-> MaxMark \div 4, high |-> MaxMark, size |-> 0,
            paused |-> FALSE, lost |-> FALSE, pc |-> "idle", llow |-> 0,
            lhigh |-> 0, exc |-> "none", out |-> "none", low0 |-> 0,
            high0 |-> 0, nflush |-> 0]

InitSession ==
    /\ reader = 0
    /\ writer = 0
    /\ outgoing = <<>>
    /\ unfinished = 0
    /\ getters = <<>>
    /\ joiners = <<>>
    /\ reader_task = 0
    /\ writer_task = 0
    /\ bh_tasks = 0
    /\ dc_task = 0
    /\ tasks = <<>>
    /\ gathers = <<>>
    /\ transports = <<>>
    /\ ready = <<>>
    /\ users = [u \in Users |-> IdleUser]
    /\ ev = NoEv
    /\ hist = [nconn |-> 0, ndisc |-> 0, nmsg |-> 0, nrecv |-> 0,
               enq |-> <<>>, sent |-> <<>>, owed |-> {},
               arr |-> <<>>, disp |-> <<>>, open |-> 0,
               over |-> FALSE]

Init ==
    /\ InitSession
    /\ facade = NoCall
    /\ xport = NoFlush

\* ---- the event loop and asyncio primitives ----

TaskEntry(id) == [k |-> "task", id |-> id, c |-> 0]
UserEntry(u) == [k |-> "user", id |-> u, c |-> 0]
GatherEntry(g, c) == [k |-> "gcb", id |-> g, c |-> c]
WaitEntry(id) == [k |-> "wcb", id |-> id, c |-> 0]

RemoveFrom(seq, x) == SelectSeq(seq, LAMBDA y : y # x)

\* loop.call_soon for each entry of cbs
CallSoon(s, cbs) == [s EXCEPT !.ready = @ \o cbs]

\* the head callback has been taken off the ready queue
Pop(s) == [s EXCEPT !.ready = Tail(@)]

NewTask(kind) ==
    [kind |-> kind, pc |-> "new", res |-> "none", mc |-> FALSE, inq |-> TRUE,
     io |-> "none", msg |-> 0, aw |-> 0, cbs |-> <<>>, h |-> FALSE,
     lf |-> FALSE, i0 |-> FALSE, first |-> "none"]

\* util.create_task: the task's first step is call_soon'ed
Spawn(s, kind) ==
    [s EXCEPT !.tasks = Append(@, NewTask(kind)),
              !.ready = Append(@, TaskEntry(Len(s.tasks) + 1))]

\* task.done() of a handle; _done() of _bh_disconnect
Done(s, id) == id # 0 /\ s.tasks[id].pc = "done"

\* A task's coroutine returned (res = "ok"), raised (res = the fault) or
\* let CancelledError out (res = "cancelled"): its done callbacks are
\* call_soon'ed in the order they were added.
Finish(s, id, res) ==
    [s EXCEPT !.tasks[id] = [kind |-> s.tasks[id].kind, pc |-> "done",
                             res |-> res, mc |-> FALSE, inq |-> FALSE,
                             io |-> "none", msg |-> 0, aw |-> 0, cbs |-> <<>>,
                             h |-> FALSE, lf |-> FALSE,
                             i0 |-> s.tasks[id].i0, first |-> "none"],
              !.ready = @ \o s.tasks[id].cbs]

\* The task suspends at an await: pc names what it waits for.
Block(s, id, pc) ==
    [s EXCEPT !.tasks[id].pc = pc, !.tasks[id].inq = FALSE,
              !.tasks[id].io = "none"]

\* The future a task waits for completed with outcome io: its wakeup is
\* call_soon'ed.
Wake(s, id, io) ==
    [s EXCEPT !.tasks[id].inq = TRUE, !.tasks[id].io = io,
              !.ready = Append(@, TaskEntry(id))]

\* Task.cancel(): nothing for a done task; a task waiting on a future has
\* the future cancelled, which wakes it with CancelledError; a task that is
\* already scheduled gets CancelledError thrown in at its next step.
CancelTask(s, id) ==
    IF s.tasks[id].pc = "done" THEN s
    ELSE IF s.tasks[id].inq THEN [s EXCEPT !.tasks[id].mc = TRUE]
    ELSE [s EXCEPT !.tasks[id].mc = TRUE, !.tasks[id].inq = TRUE,
                   !.ready = Append(@, TaskEntry(id)),
                   !.getters = RemoveFrom(@, id),
                   !.joiners = RemoveFrom(@, id)]

\* asyncio.wait((x,)) by task id: _on_completion is added to x's done
\* callbacks (call_soon'ed at once when x is already done) and the caller
\* suspends on the waiter.
WaitOn(s, id, x, pc) ==
    LET s1 == IF Done(s, x) THEN CallSoon(s, <<WaitEntry(id)>>)
              ELSE [s EXCEPT !.tasks[x].cbs = Append(@, WaitEntry(id))]
    IN  [Block(s1, id, pc) EXCEPT !.tasks[id].aw = x]

\* asyncio.Queue.task_done() on self._outgoing: reaching 0 sets the
\* _finished event, which wakes every join() waiter.
RECURSIVE WakeAll(_, _)
WakeAll(s, ids) ==
    IF ids = <<>> THEN s ELSE WakeAll(Wake(s, Head(ids), "ok"), Tail(ids))

TaskDoneRaises(s) == s.unfinished <= 0

\* the messages of a sequence
Range(seq) == {seq[i] : i \in DOMAIN seq}

\* a join() of the queue is over: it found no unconsumed message, or
\* task_done() brought their count to zero and set the event it waits for
\* (observation)
JoinOver(s) ==
    [s EXCEPT !.ev.joined = TRUE,
              !.ev.alls = Range(s.hist.enq) \subseteq Range(s.hist.sent)]

QueueTaskDone(s) ==
    IF s.unfinished = 1
    THEN LET s1 == IF s.joiners # <<>> THEN JoinOver(s) ELSE s IN
         [WakeAll(s1, s.joiners) EXCEPT !.unfinished = 0, !.joiners = <<>>]
    ELSE [s EXCEPT !.unfinished = @ - 1]

\* asyncio.Queue.put_nowait(m) on self._outgoing: wakes the first getter.
QueuePut(s, m) ==
    LET s1 == [s EXCEPT !.outgoing = Append(@, m), !.unfinished = @ + 1]
    IN  IF s.getters = <<>> THEN s1
        ELSE [Wake(s1, Head(s.getters), "ok") EXCEPT !.getters = Tail(@)]

\* ---- AsyncProtocol: the bottom half ----

\* both loop tasks exist and neither is done
BothRunning(s) ==
    /\ s.reader_task # 0 /\ s.tasks[s.reader_task].pc # "done"
    /\ s.writer_task # 0 /\ s.tasks[s.writer_task].pc # "done"

\* the session is IDLE: no transport, no task handle
Idle(s) ==
    /\ s.reader = 0 /\ s.writer = 0
    /\ s.reader_task = 0 /\ s.writer_task = 0
    /\ s.bh_tasks = 0 /\ s.dc_task = 0

\* a caller asks for a disconnect of a session that is IDLE while no
\* connect call is in progress (observation)
OnIdle(s, req) ==
    req /\ Idle(s) /\ \A u \in DOMAIN s.users : s.users[u].op # "connect"

\* a _schedule_disconnect that would not look at self._dc_task
ScheduleDisconnectAlways(s, req) ==
    LET d == Len(s.tasks) + 1 IN
    [Spawn(s, "dc") EXCEPT !.dc_task = d,
                           !.tasks[d].h = req /\ BothRunning(s),
                           !.tasks[d].lf = ~req,
                           !.tasks[d].i0 = OnIdle(s, req)]

\* _schedule_disconnect; req says that a caller asks for it (observation)
ScheduleDisconnect(s, req) ==
    IF s.dc_task = 0
    THEN LET d == Len(s.tasks) + 1 IN
         [Spawn(s, "dc") EXCEPT !.dc_task = d,
                                !.tasks[d].h = req /\ BothRunning(s),
                                !.tasks[d].lf = ~req,
                                !.tasks[d].i0 = OnIdle(s, req),
                                !.hist.owed = IF req /\ BothRunning(s)
                                              THEN Range(s.outgoing) ELSE {}]
    ELSE s

\* _bh_loop_forever, except BaseException: schedule a disconnect, re-raise
LoopRaise(s, id, f) ==
    Finish([ScheduleDisconnect(s, FALSE) EXCEPT !.ev.fault = f], id, f)

\* _bh_loop_forever, except asyncio.CancelledError: return
LoopCancelled(s, id) == Finish(s, id, "ok")

\* the reader task leaves an invocation of the on-message hook, if it was
\* in one (observation)
HookOver(s, id) ==
    IF id = s.reader_task /\ s.tasks[id].pc = "hook"
    THEN [s EXCEPT !.hist.open = @ - 1]
    ELSE s

\* a reader that would start the hook for m and go on to receive the next
\* message without waiting for the hook to return
OnMessagePipelined(s, id, m, ho) ==
    LET s1 == IF id = s.reader_task
              THEN [s EXCEPT !.hist.disp = Append(@, m),
                             !.hist.open = IF ho = "susp" THEN @ + 1 ELSE @]
              ELSE s
    IN  [Block(s1, id, "recv") EXCEPT !.tasks[id].msg = 0]

\* _bh_recv_message, "await self._on_message(msg)", then the next iteration
\* of _bh_loop_forever; ho is what the hook does with the message: it
\* returns without waiting ("ok") or it waits for something ("susp")
OnMessage(s, id, m, ho) ==
    LET s1 == IF id = s.reader_task
              THEN [s EXCEPT !.hist.disp = Append(@, m)]
              ELSE s
    IN  IF ho = "susp"
        THEN [Block(s1, id, "hook")
                 EXCEPT !.tasks[id].msg = m,
                        !.hist.open = IF id = s.reader_task THEN @ + 1 ELSE @]
        ELSE [Block(s1, id, "recv") EXCEPT !.tasks[id].msg = 0]

\* _bh_recv_message, "msg = await self._recv()" returned message m
\* (observation)
Received(s, id, m) ==
    IF id = s.reader_task THEN [s EXCEPT !.hist.arr = Append(@, m)] ELSE s

\* _bh_loop_forever(_bh_recv_message): one step of the reader task.  A
\* CancelledError thrown into a coroutine that has not started is raised
\* outside the try block and cancels the task.
ReaderStep(s, id, ho) ==
    LET t == s.tasks[id] IN
    IF t.pc = "new"
    THEN IF t.mc THEN Finish(s, id, "cancelled") ELSE Block(s, id, "recv")
    ELSE IF t.mc THEN LoopCancelled(HookOver(s, id), id)
    ELSE IF t.io # "ok" THEN LoopRaise(HookOver(s, id), id, t.io)
    ELSE IF t.pc = "recv"
         THEN OnMessage(Received(s, id, t.msg), id, t.msg, ho)
    ELSE [Block(HookOver(s, id), id, "recv") EXCEPT !.tasks[id].msg = 0]

\* msg = await self._outgoing.get(): suspends on an empty queue, goes on in
\* the same step otherwise (the task stays at the head of the ready queue).
WriterGet(s, id) ==
    IF s.outgoing = <<>>
    THEN [Block(s, id, "get") EXCEPT !.getters = Append(@, id)]
    ELSE [s EXCEPT !.tasks[id].pc = "get", !.tasks[id].inq = TRUE,
                   !.tasks[id].io = "none", !.tasks[id].msg = 0,
                   !.ready = <<TaskEntry(id)>> \o @]

\* _bh_send_message, finally: task_done(); then _bh_loop_forever goes on,
\* returns on cancellation or schedules a disconnect and re-raises.
AfterSend(s0, id, out) ==
    LET s == [s0 EXCEPT !.ev.td = IF TaskDoneRaises(s0) THEN "ValueError"
                                  ELSE "ok"] IN
    IF TaskDoneRaises(s) THEN LoopRaise(s, id, "ValueError")
    ELSE LET s1 == QueueTaskDone(s) IN
         IF out = "ok" THEN WriterGet(s1, id)
         ELSE IF out = "cancelled" THEN LoopCancelled(s1, id)
         ELSE LoopRaise(s1, id, out)

\* a queue that would hand out its newest message first
NextMessageNewest(s) == s.outgoing[Len(s.outgoing)]

\* what self._outgoing.get() returns: the oldest message of the queue
NextMessage(s) == Head(s.outgoing)

\* _bh_loop_forever(_bh_send_message): one step of the writer task; so is
\* what _send does with a message dequeued in this step.
WriterStep(s, id, so) ==
    LET t == s.tasks[id] IN
    IF t.pc = "new"
    THEN IF t.mc THEN Finish(s, id, "cancelled") ELSE WriterGet(s, id)
    ELSE IF t.pc = "get"
    THEN IF t.mc THEN LoopCancelled(s, id)
         ELSE IF s.outgoing = <<>> THEN WriterGet(s, id)
         ELSE LET m == NextMessage(s)
                  s1 == [s EXCEPT !.outgoing = Tail(@),
                                  !.hist.sent = Append(@, m),
                                  !.hist.owed = @ \ {m}]
              IN  IF so = "susp"
                  THEN [Block(s1, id, "send") EXCEPT !.tasks[id].msg = m]
                  ELSE AfterSend(s1, id, so)
    ELSE IF t.mc THEN AfterSend(s, id, "cancelled")
         ELSE AfterSend(s, id, t.io)

\* _exception() of _bh_disconnect: task.exception() raises CancelledError
\* for a cancelled task.
ExceptionOf(s, id) ==
    IF id = 0 \/ ~Done(s, id) THEN "none"
    ELSE IF s.tasks[id].res = "ok" THEN "none"
    ELSE s.tasks[id].res

\* _bh_disconnect, the except clause around wait_closed: all() stops at the
\* first task whose exception is err; reading the exception of a cancelled
\* task raises CancelledError out of the handler.
CloseRaised(s0, id, err) ==
    LET re == ExceptionOf(s0, s0.reader_task)
        we == ExceptionOf(s0, s0.writer_task)
        res == IF re = "cancelled" THEN "cancelled"
               ELSE IF re = err THEN "ok"
               ELSE IF we = "cancelled" THEN "cancelled"
               ELSE IF we = err THEN "ok"
               ELSE err
        s == [s0 EXCEPT !.ev.cerr = err, !.ev.cres = res,
                        !.ev.rex = re, !.ev.wex = we]
    IN  IF re = "cancelled" THEN Finish(s, id, "cancelled")
        ELSE IF re = err THEN Finish(s, id, "ok")
        ELSE IF we = "cancelled" THEN Finish(s, id, "cancelled")
        ELSE IF we = err THEN Finish(s, id, "ok")
        ELSE Finish(s, id, err)

\* _bh_disconnect after "await wait_closed(self._writer)", which returned
\* (out = "ok") or raised out
DcClosed(s, id, out) ==
    IF out = "ok" THEN Finish(s, id, "ok") ELSE CloseRaised(s, id, out)

\* the handle is empty or its task is done
TaskOver(s, id) == id = 0 \/ Done(s, id)

\* _bh_disconnect from "if self._writer:" on; wait_closed does not suspend
\* on a transport that is closed: it returns or raises as it did before
DcClose(s0, id) ==
    IF s0.writer # 0
    THEN LET s == [s0 EXCEPT !.ev = [s0.ev EXCEPT
                                 !.t = "close",
                                 !.rdone = TaskOver(s0, s0.reader_task),
                                 !.wdone = TaskOver(s0, s0.writer_task)]]
             st == s.transports[s.writer] IN
         IF st = "open"
         THEN [Block([s EXCEPT !.transports[s.writer] = "closing"], id,
                     "close") EXCEPT !.tasks[id].aw = s.writer]
         ELSE IF st = "closing"
         THEN [Block(s, id, "close") EXCEPT !.tasks[id].aw = s.writer]
         ELSE DcClosed(s, id, st)
    ELSE Finish(s0, id, "ok")

\* _bh_stop_reader
DcStopReader(s, id) ==
    IF s.reader_task = 0 \/ Done(s, s.reader_task) THEN DcClose(s, id)
    ELSE LET s1 == [s EXCEPT !.ev = [s.ev EXCEPT
                                 !.t = "stopr",
                                 !.wdone = TaskOver(s, s.writer_task)]]
         IN  WaitOn(CancelTask(s1, s.reader_task), id, s.reader_task,
                    "waitr")


\* _bh_stop_writer from self._writer_task.cancel() on
DcCancelWriter(s, id, mode, flushed) ==
    IF s.writer_task = 0 THEN Finish(s, id, "AttributeError")
    ELSE LET s1 == [s EXCEPT !.hist.owed = {},
                             !.ev = [s.ev EXCEPT
                                 !.t = "cancel", !.mode = mode,
                                 !.h = s.tasks[id].h,
                                 !.drained = s.hist.owed = {},
                                 !.flushed = flushed]]
         IN  WaitOn(CancelTask(s1, s.writer_task), id, s.writer_task, "waitw")

\* _bh_stop_writer, "if self._writer is not None: await flush(...)"; fo is
\* what drain does: it returns or raises (within the step: the wait of a
\* drain for the transport is not modelled)
DcFlush(s, id, fo) ==
    IF s.writer = 0 THEN DcCancelWriter(s, id, "graceful", FALSE)
    ELSE IF fo = "ok"
         THEN DcCancelWriter(s, id, "graceful", TRUE)
    ELSE Finish(s, id, fo)

\* _bh_stop_writer, await self._outgoing.join()
DcJoin(s, id, fo) ==
    IF s.unfinished > 0
    THEN [Block(s, id, "join") EXCEPT !.joiners = Append(@, id)]
    ELSE DcFlush(JoinOver(s), id, fo)

\* a _bh_stop_writer that would not look at self._writer_task first
DcStopWriterNoGuard(s, id, force, fo) ==
    IF ~force THEN DcJoin(s, id, fo)
    ELSE DcCancelWriter(s, id, "forced", FALSE)

\* _bh_stop_writer
DcStopWriter(s, id, force, fo) ==
    IF s.writer_task = 0 \/ Done(s, s.writer_task) THEN DcStopReader(s, id)
    ELSE IF ~force
         THEN DcJoin(s, id, fo)
         ELSE DcCancelWriter(s, id, "forced", FALSE)

\* error_pathway of _bh_disconnect
ErrorPathway(s) == Done(s, s.reader_task) \/ Done(s, s.writer_task)

\* the first step of the disconnect task id (observation)
DcStarts(s, id) ==
    [s EXCEPT !.ev = [NoEv EXCEPT !.start = TRUE,
                                  !.force = ErrorPathway(s),
                                  !.lf = s.tasks[id].lf,
                                  !.i0 = s.tasks[id].i0]]

\* _bh_disconnect: one step of the disconnect task
DcStep(s, id, fo) ==
    LET t == s.tasks[id] IN
    IF t.mc THEN Finish(s, id, "cancelled")
    ELSE IF t.pc = "new"
         THEN DcStopWriter(DcStarts(s, id), id, ErrorPathway(s), fo)
    ELSE IF t.pc = "join" THEN DcFlush(s, id, fo)
    ELSE IF t.pc = "waitw" THEN DcStopReader(s, id)
    ELSE IF t.pc = "waitr" THEN DcClose(s, id)
    ELSE DcClosed(s, id, t.io)

\* asyncio.gather(reader_task, writer_task): the outer future is resolved
\* by _done_callback, with the first child that raised or was cancelled, or
\* with the results once both children are done.
SetGather(s, g, res) ==
    [s EXCEPT !.gathers[g].st = "done", !.gathers[g].res = res,
              !.gathers[g].cbs = <<>>,
              !.ready = @ \o s.gathers[g].cbs]

\* the outer future of gather g is resolved with res by the done callback
\* of child c (observation)
Resolved(s, g, c, res) ==
    LET o == IF c = s.gathers[g].r THEN s.gathers[g].w ELSE s.gathers[g].r
    IN  [s EXCEPT !.ev.gset = res, !.ev.gn = s.gathers[g].nfin,
                  !.ev.gc = s.tasks[c].res,
                  !.ev.go = IF s.tasks[o].pc # "done" THEN "pending"
                            ELSE s.tasks[o].res]

\* a gather(return_exceptions=False) that would wait for all its children
\* before it raises the first fault among them
GatherCallbackAll(s, g, c) ==
    LET s1 == [s EXCEPT !.gathers[g].nfin = @ + 1]
        rres == s.tasks[s.gathers[g].r].res
        wres == s.tasks[s.gathers[g].w].res
        one == IF rres # "ok" THEN rres ELSE wres
        res == IF one = "cancelled" THEN "CancelledError" ELSE one
    IN  IF s.gathers[g].st = "done" \/ s1.gathers[g].nfin < 2 THEN s1
        ELSE SetGather(Resolved(s1, g, c, res), g, res)

\* gather's _done_callback for child c
GatherCallback(s, g, c) ==
    LET cres == s.tasks[c].res
        s1 == [s EXCEPT !.gathers[g].nfin = @ + 1]
    IN  IF s.gathers[g].st = "done" THEN s1
        ELSE IF cres = "cancelled"
             THEN SetGather(Resolved(s1, g, c, "CancelledError"), g,
                            "CancelledError")
        ELSE IF cres # "ok" THEN SetGather(Resolved(s1, g, c, cres), g, cres)
        ELSE IF s1.gathers[g].nfin = 2
             THEN SetGather(Resolved(s1, g, c, "ok"), g, "ok")
        ELSE s1

\* asyncio.wait's _on_completion: the waiter is resolved, which call_soon's
\* the wakeup of the task suspended in asyncio.wait
WaitCallback(s, id) ==
    IF s.tasks[id].pc \in {"waitw", "waitr"} /\ ~s.tasks[id].inq
    THEN Wake(s, id, "ok")
    ELSE s

\* ---- AsyncProtocol: the upper half ----

BlockUser(s, u, pc, aw) ==
    [s EXCEPT !.users[u].pc = pc, !.users[u].inq = FALSE,
              !.users[u].io = "none", !.users[u].aw = aw]

WakeUser(s, u, io) ==
    [s EXCEPT !.users[u].inq = TRUE, !.users[u].io = io,
              !.ready = Append(@, UserEntry(u))]

\* the call of user u is over: it returned (out = "ok") or raised out
Return(s, u, out, cause, phase) ==
    [s EXCEPT !.users[u] = IdleUser,
              !.hist.over = IF \/ s.users[u].op = "connect" /\ out # "ok"
                               \/ s.users[u].op = "disconnect"
                                  /\ s.hist.nconn > 0 /\ u \in Connectors
                            THEN TRUE ELSE @,
              !.ev = [NoEv EXCEPT !.t = "ret", !.u = u, !.op = s.users[u].op,
                                  !.out = out, !.cause = cause,
                                  !.phase = phase, !.err = s.users[u].err,
                                  !.eph = s.users[u].phase]]

GatherDone(s, g) == g # 0 /\ s.gathers[g].st = "done"

\* _cleanup: the assert of _paranoid_task_erase fails on the first handle
\* that is set and not done
CleanupRaises(s) ==
    \/ s.dc_task # 0 /\ ~Done(s, s.dc_task)
    \/ s.reader_task # 0 /\ ~Done(s, s.reader_task)
    \/ s.writer_task # 0 /\ ~Done(s, s.writer_task)
    \/ s.bh_tasks # 0 /\ ~GatherDone(s, s.bh_tasks)

\* _cleanup: the handles are erased in the order of the code, up to the
\* failing assert
Cleanup(s) ==
    IF s.dc_task # 0 /\ ~Done(s, s.dc_task) THEN s
    ELSE IF s.reader_task # 0 /\ ~Done(s, s.reader_task)
         THEN [s EXCEPT !.dc_task = 0]
    ELSE IF s.writer_task # 0 /\ ~Done(s, s.writer_task)
         THEN [s EXCEPT !.dc_task = 0, !.reader_task = 0]
    ELSE IF s.bh_tasks # 0 /\ ~GatherDone(s, s.bh_tasks)
         THEN [s EXCEPT !.dc_task = 0, !.reader_task = 0, !.writer_task = 0]
    ELSE [s EXCEPT !.dc_task = 0, !.reader_task = 0, !.writer_task = 0,
                   !.bh_tasks = 0, !.reader = 0, !.writer = 0]

\* what a connect that failed with err raises once disconnect() returned
\* (_new_session, lines 192-200)
IsException(err) == err \in Faults

\* disconnect() is over with outcome out: the end of a disconnect call, or
\* of the except clause of _new_session
EndDisconnect(s, u, out) ==
    LET usr == s.users[u] IN
    IF usr.op = "disconnect" THEN Return(s, u, out, "none", "none")
    ELSE IF out # "ok" THEN Return(s, u, out, "none", "none")
    ELSE IF usr.err = "CancelledError"
         THEN Return(s, u, "CancelledError", "none", "none")
    ELSE IF IsException(usr.err)
         THEN Return(s, u, "ConnectError", usr.err, usr.phase)
    ELSE Return(s, u, usr.err, "none", "none")

\* the result of the task of handle id: "none" when the handle is empty,
\* "pending" when the task is not done
ResultOf(s, id) ==
    IF id = 0 THEN "none"
    ELSE IF s.tasks[id].pc # "done" THEN "pending"
    ELSE s.tasks[id].res

GatherResultOf(s, g) ==
    IF g = 0 THEN "none"
    ELSE IF s.gathers[g].st # "done" THEN "pending"
    ELSE s.gathers[g].res

\* _wait_disconnect, finally: self._cleanup()
Finally(s, u, out) ==
    LET d == s.users[u].d
        o == IF CleanupRaises(s) THEN "AssertionError" ELSE out
        s1 == [Cleanup(s) EXCEPT !.tasks[d].first = IF @ = "none" THEN o
                                                    ELSE @]
    IN  [EndDisconnect(s1, u, o) EXCEPT
            !.ev.dout = o, !.ev.first = s.tasks[d].first,
            !.ev.rres = ResultOf(s, s.reader_task),
            !.ev.wres = ResultOf(s, s.writer_task),
            !.ev.gres = GatherResultOf(s, s.bh_tasks),
            !.ev.dres = ResultOf(s, d),
            !.ev.i0 = d # 0 /\ s.tasks[d].i0,
            !.ev.cl = IF CleanupRaises(s) THEN "AssertionError" ELSE "ok"]

\* _wait_disconnect: if self._bh_tasks: await self._bh_tasks
AwaitBhTasks(s, u) ==
    IF s.bh_tasks = 0 THEN Finally(s, u, "ok")
    ELSE IF GatherDone(s, s.bh_tasks)
         THEN Finally(s, u, s.gathers[s.bh_tasks].res)
    ELSE [BlockUser(s, u, "bhwait", s.bh_tasks)
             EXCEPT !.gathers[s.bh_tasks].cbs = Append(@, UserEntry(u))]

\* a _wait_disconnect that would call _cleanup after the awaits and not in
\* a finally clause
AfterDcTaskNoFinally(s, u, d) ==
    LET res == s.tasks[d].res IN
    IF res = "ok" THEN AwaitBhTasks(s, u)
    ELSE IF res = "cancelled" THEN EndDisconnect(s, u, "CancelledError")
    ELSE EndDisconnect(s, u, res)

\* _wait_disconnect after "await self._dc_task" on task d
AfterDcTask(s, u, d) ==
    LET res == s.tasks[d].res IN
    IF res = "ok" THEN AwaitBhTasks(s, u)
    ELSE IF res = "cancelled" THEN Finally(s, u, "CancelledError")
    ELSE Finally(s, u, res)

\* _wait_disconnect: await self._dc_task
WaitDisconnect(s, u) ==
    LET s1 == [s EXCEPT !.users[u].d = s.dc_task] IN
    IF Done(s, s.dc_task) THEN AfterDcTask(s1, u, s.dc_task)
    ELSE [BlockUser(s1, u, "dcwait", s.dc_task)
             EXCEPT !.tasks[s.dc_task].cbs = Append(@, UserEntry(u))]

\* disconnect
Disconnect(s, u) == WaitDisconnect(ScheduleDisconnect(s, TRUE), u)

\* _new_session, except BaseException as err: await self.disconnect()
ConnectFailed(s, u, err) == Disconnect([s EXCEPT !.users[u].err = err], u)

\* _establish_session of the base class: the queue, the two loop tasks and
\* the gather over them
StartLoops(s) ==
    LET s1 == [s EXCEPT !.outgoing = <<>>, !.unfinished = 0,
                        !.getters = <<>>, !.joiners = <<>>,
                        !.hist.enq = <<>>, !.hist.sent = <<>>,
                        !.hist.owed = {}, !.hist.arr = <<>>,
                        !.hist.disp = <<>>, !.hist.open = 0]
        r == Len(s.tasks) + 1
        w == Len(s.tasks) + 2
        g == Len(s.gathers) + 1
        s2 == Spawn(Spawn(s1, "reader"), "writer")
    IN  [s2 EXCEPT !.reader_task = r, !.writer_task = w, !.bh_tasks = g,
                   !.tasks[r].cbs = <<GatherEntry(g, r)>>,
                   !.tasks[w].cbs = <<GatherEntry(g, w)>>,
                   !.gathers = Append(@, [r |-> r, w |-> w, st |-> "pending",
                                          res |-> "none", nfin |-> 0,
                                          cbs |-> <<>>])]

\* _establish_session as a protocol layer extends it (lines 84-89): sk says
\* whether its own steps fail before the loops are started ("pre"), fail
\* after they are started without waiting ("post"), wait for something
\* after they are started ("susp"), or add nothing ("ok")
EstablishSession(s, u, sk, f) ==
    IF sk = "pre" THEN ConnectFailed(s, u, f)
    ELSE LET s1 == StartLoops(s) IN
         IF sk = "ok" THEN Return(s1, u, "ok", "none", "none")
         ELSE IF sk = "post" THEN ConnectFailed(s1, u, f)
         ELSE BlockUser(s1, u, "sess", 0)

\* _do_connect after "await connect", then phase = "session"
Connected(s, u, sk, f) ==
    LET tr == Len(s.transports) + 1
        s1 == [s EXCEPT !.transports = Append(@, "open"),
                        !.reader = tr, !.writer = tr,
                        !.users[u].phase = "session"]
    IN  EstablishSession(s1, u, sk, f)

\* connect / _new_session and disconnect: one step of the task of user u
UserStep(s, u, sk, f) ==
    LET usr == s.users[u] IN
    IF usr.pc = "start"
    THEN IF usr.op = "connect"
         THEN [BlockUser(s, u, "conn", 0)
                  EXCEPT !.users[u].phase = "connection",
                         !.hist.over = FALSE,
                         !.ev = [NoEv EXCEPT !.t = "begin", !.u = u,
                                             !.op = "connect",
                                             !.idle0 = Idle(s),
                                             !.re = s.hist.over]]
         ELSE Disconnect(s, u)
    ELSE IF usr.pc = "conn"
    THEN IF usr.io = "ok" THEN Connected(s, u, sk, f)
         ELSE ConnectFailed(s, u, usr.io)
    ELSE IF usr.pc = "sess"
    THEN IF usr.io = "ok" THEN Return(s, u, "ok", "none", "none")
         ELSE ConnectFailed(s, u, usr.io)
    ELSE IF usr.pc = "dcwait" THEN AfterDcTask(s, u, usr.aw)
    ELSE Finally(s, u, s.gathers[usr.aw].res)

\* ---- the actions ----

S0 == [Cur EXCEPT !.ev = NoEv]

HeadIs(k) == ready # <<>> /\ Head(ready).k = k
HeadTask(kind) == HeadIs("task") /\ tasks[Head(ready).id].kind = kind

SendOutcomes == {"ok", "susp", "Fw"}
FlushOutcomes == {"ok", "Ff"}
RecvOutcomes == {"ok", "Fr"}
HookOutcomes == {"ok", "susp"}
CloseOutcomes == {"ok", "Fr", "Fw", "Fc"}
ConnectOutcomes == {"ok", "Fx", "CancelledError", "KeyboardInterrupt"}
SessionOutcomes == {"ok", "Fs"}
SessionKinds == {"ok", "pre", "post", "susp"}

\* the event loop runs the reader task
StepReader ==
    /\ HeadTask("reader")
    /\ \E ho \in HookOutcomes :
          Commit(ReaderStep(Pop(S0), Head(ready).id, ho))

\* the event loop runs the writer task
StepWriter ==
    /\ HeadTask("writer")
    /\ \E so \in SendOutcomes :
          Commit(WriterStep(Pop(S0), Head(ready).id, so))

\* the event loop runs the disconnect task
StepDisconnect ==
    /\ HeadTask("dc")
    /\ \E fo \in FlushOutcomes :
          CommitCollect(DcStep(Pop(S0), Head(ready).id, fo))

\* the event loop runs a done callback of gather
StepGather ==
    /\ HeadIs("gcb")
    /\ CommitCollect(GatherCallback(Pop(S0), Head(ready).id, Head(ready).c))

\* the event loop runs a done callback of asyncio.wait
StepWait ==
    /\ HeadIs("wcb")
    /\ Commit(WaitCallback(Pop(S0), Head(ready).id))

\* the event loop runs the task of a caller
StepUser ==
    /\ HeadIs("user")
    /\ \E sk \in SessionKinds :
          CommitCollect(UserStep(Pop(S0), Head(ready).id, sk, "Fs"))

\* a caller task calls connect() or disconnect()
Call(b, u, op) ==
    /\ users[u].pc = "idle"
    /\ u \in b.callers
    /\ op = "connect" => u \in Connectors /\ hist.nconn < b.conn
    /\ op = "disconnect" => hist.ndisc < b.disc
    /\ Commit([WakeUser(S0, u, "none")
                  EXCEPT !.users[u].pc = "start", !.users[u].op = op,
                         !.hist.nconn = IF op = "connect" THEN @ + 1 ELSE @,
                         !.hist.ndisc = IF op = "disconnect" THEN @ + 1
                                        ELSE @])

\* the protocol layer puts a message on the outgoing queue of the session
Enqueue(b) ==
    /\ writer_task # 0
    /\ hist.nmsg < b.msgs
    /\ b.late \/ dc_task = 0
    /\ LET m == hist.nmsg + 1 IN
       Commit([QueuePut(S0, m) EXCEPT !.hist.nmsg = m,
                                      !.hist.enq = Append(@, m)])

\* the connection attempt of a connect() is over
ConnectEvent(u, out) ==
    /\ users[u].pc = "conn" /\ ~users[u].inq
    /\ Commit(WakeUser(S0, u, out))

\* what the protocol layer waits for in its session phase is over
SessionEvent(u, out) ==
    /\ users[u].pc = "sess" /\ ~users[u].inq
    /\ Commit(WakeUser(S0, u, out))

\* what the reader task waits for is over.  In the receive primitive: a
\* message arrived ("ok"; the messages are numbered as they arrive) or the
\* primitive raised.  In an on-message hook that waits: the hook returned
\* ("ok") or raised.
RecvEvent(b, id, out) ==
    /\ tasks[id].pc \in {"recv", "hook"} /\ ~tasks[id].inq
    /\ IF tasks[id].pc = "recv" /\ out = "ok"
       THEN /\ hist.nrecv < b.recvs
            /\ LET m == hist.nrecv + 1 IN
               Commit([Wake(S0, id, out)
                          EXCEPT !.tasks[id].msg = m, !.hist.nrecv = m])
       ELSE Commit(Wake(S0, id, out))

\* a send primitive that suspended is over
SendEvent(id, out) ==
    /\ tasks[id].pc = "send" /\ ~tasks[id].inq
    /\ Commit(Wake(S0, id, out))

\* wait_closed is over: the transport is closed, and keeps the outcome
CloseEvent(id, out) ==
    /\ tasks[id].pc = "close" /\ ~tasks[id].inq
    /\ Commit([Wake(S0, id, out) EXCEPT !.transports[tasks[id].aw] = out])

\* the steps of the event loop
Run ==
    \/ StepReader
    \/ StepWriter
    \/ StepDisconnect
    \/ StepGather
    \/ StepWait
    \/ StepUser

\* what the awaited primitives do
Io(b) ==
    \/ \E u \in Users, out \in ConnectOutcomes : ConnectEvent(u, out)
    \/ \E u \in Users, out \in SessionOutcomes : SessionEvent(u, out)
    \/ \E id \in DOMAIN tasks, out \in RecvOutcomes : RecvEvent(b, id, out)
    \/ \E id \in DOMAIN tasks, out \in {"ok", "Fw"} : SendEvent(id, out)
    \/ \E id \in DOMAIN tasks, out \in CloseOutcomes : CloseEvent(id, out)

NextFor(b) ==
    \/ Run
    \/ Io(b)
    \/ \E u \in Users, op \in {"connect", "disconnect"} : Call(b, u, op)
    \/ Enqueue(b)

\* two callers, one connect: the calls overlap
Next == NextFor(Bounds)

Spec == Init /\ [][Next]_vars

\* one caller, whose calls follow one another, and two connects
SeqBounds ==
    [conn |-> SeqConnects, disc |-> SeqDisconnects, msgs |-> SeqMsgs,
     recvs |-> SeqRecvs, callers |-> {1}, late |-> TRUE]

SeqNext == NextFor(SeqBounds)

SpecSeq == Init /\ [][SeqNext]_vars

\* One caller and one session that receives several messages.
InBounds ==
    [conn |-> InConnects, disc |-> InDisconnects, msgs |-> InMsgs,
     recvs |-> InRecvs, callers |-> {1}, late |-> TRUE]

InNext == NextFor(InBounds)

SpecIn == Init /\ [][InNext]_vars

\* One caller, one connect, one disconnect, and no message enqueued once a
\* disconnect is scheduled.  The event loop goes on running the callbacks
\* that are ready, and every primitive that is awaited returns or raises in
\* the end.
FairBounds ==
    [conn |-> FairConnects, disc |-> FairDisconnects, msgs |-> FairMsgs,
     recvs |-> FairRecvs, callers |-> {1}, late |-> FALSE]

FairNext == NextFor(FairBounds)

Fairness ==
    /\ WF_vars(Run)
    /\ WF_vars(\E u \in Users, out \in ConnectOutcomes : ConnectEvent(u, out))
    /\ WF_vars(\E u \in Users, out \in SessionOutcomes : SessionEvent(u, out))
    /\ WF_vars(\E id \in DOMAIN tasks, out \in RecvOutcomes :
                   RecvEvent(FairBounds, id, out))
    /\ WF_vars(\E id \in DOMAIN tasks, out \in {"ok", "Fw"} :
                   SendEvent(id, out))
    /\ WF_vars(\E id \in DOMAIN tasks, out \in CloseOutcomes :
                   CloseEvent(id, out))

SpecFair == Init /\ [][FairNext]_vars /\ Fairness

\* ---- the synchronous facade (sync_qmp.py) ----

\* the variables of the session, which the facade's event calls and
\* util.flush leave alone
session == <<reader, writer, outgoing, unfinished, getters, joiners,
             reader_task, writer_task, bh_tasks, dc_task, tasks, gathers,
             transports, ready, users, ev, hist>>

EventKinds == 1..NumEventKinds
\* the wait argument: False, True, or a float (a timeout)
Waits == {"False", "True", "float"}

\* The n-th event message to arrive, of kind k (a Message is a mapping).
Message(k, n) == [event |-> k, seq |-> n]

\* dict(message): a new mapping with the keys and the values of the message
Dict(m) == [f \in DOMAIN m |-> m[f]]

\* What the event loop does while run_until_complete runs it: the events
\* in.more arrive, and the timer of wait_for fires first or not.
LoopInputs(f) ==
    {[more |-> m, timeout |-> b] :
        m \in {<<>>} \cup (IF f.n < MaxEvents
                           THEN {<<k>> : k \in EventKinds} ELSE {}),
        b \in BOOLEAN}

\* run_until_complete(asyncio.wait_for(self._aqmp.events.get(), timeout)):
\* get() takes the head of the queue, suspending while the queue is empty;
\* with a timeout the timer can cancel it first, and TimeoutError is
\* raised.  rk = "blocked": the call never returns.
WaitForGet(f, timeout, in) ==
    LET arrived == [i \in 1..Len(in.more) |-> Message(in.more[i], f.n + i)]
        q1 == f.q \o arrived
        f1 == [f EXCEPT !.n = f.n + Len(in.more), !.q = q1,
                        !.waited = (f.q = <<>>)]
    IN  IF timeout /\ in.timeout
        THEN [f1 EXCEPT !.rk = "TimeoutError"]
        ELSE IF q1 = <<>>
        THEN [f1 EXCEPT !.rk = "blocked"]
        ELSE [f1 EXCEPT !.q = Tail(q1), !.rk = "event",
                        !.ret = <<Dict(Head(q1))>>]

\* pull_event without its test of the queue
pull_event_blocking(f, wait, in) == WaitForGet(f, wait = "float", in)

\* QEMUMonitorProtocol.pull_event
pull_event(f, wait, in) ==
    IF wait = "False" /\ f.q = <<>>
    THEN [f EXCEPT !.rk = "None"]
    ELSE WaitForGet(f, wait = "float", in)

\* the loop of get_events: get_nowait() until QueueEmpty
RECURSIVE GetNowaitAll(_, _)
GetNowaitAll(q, events) ==
    IF q = <<>>
    THEN [q |-> q, events |-> events]
    ELSE GetNowaitAll(Tail(q), Append(events, Dict(Head(q))))

\* QEMUMonitorProtocol.get_events
get_events(f, wait, in) ==
    LET g == GetNowaitAll(f.q, <<>>)
    IN  IF g.events # <<>>
        THEN [f EXCEPT !.q = g.q, !.rk = "list", !.ret = g.events]
        ELSE LET p == pull_event([f EXCEPT !.q = g.q, !.fell = TRUE],
                                 wait, in)
             IN  IF p.rk = "event" THEN [p EXCEPT !.rk = "list"]
                 ELSE IF p.rk = "None"
                 THEN [p EXCEPT !.rk = "list", !.ret = <<>>]
                 ELSE p

\* a call begins: what it finds is recorded
BeginCall(f, call, wait) ==
    [f EXCEPT !.call = call, !.wait = wait, !.q0 = f.q, !.rk = "none",
              !.ret = <<>>, !.waited = FALSE, !.fell = FALSE]

\* between two calls of the facade an event arrives in the queue
EventArrives ==
    /\ facade.n < MaxEvents
    /\ \E k \in EventKinds :
          facade' = [BeginCall(facade, "none", "none") EXCEPT
                        !.q = Append(facade.q, Message(k, facade.n + 1)),
                        !.q0 = <<>>, !.n = facade.n + 1]
    /\ UNCHANGED <<session, xport>>

PullEvent ==
    /\ \E wait \in Waits, in \in LoopInputs(facade) :
          LET r == pull_event(BeginCall(facade, "pull_event", wait), wait, in)
          IN  r.rk # "blocked" /\ facade' = r
    /\ UNCHANGED <<session, xport>>

GetEvents ==
    /\ \E wait \in Waits, in \in LoopInputs(facade) :
          LET r == get_events(BeginCall(facade, "get_events", wait), wait, in)
          IN  r.rk # "blocked" /\ facade' = r
    /\ UNCHANGED <<session, xport>>

EvNext == EventArrives \/ PullEvent \/ GetEvents

\* the facade's event calls on a session that is not stepped
SpecEv == Init /\ [][EvNext]_vars

\* ---- util.flush and the flow control of the transport ----

\* transport.get_write_buffer_limits(): the pair (low, high)
GetWriteBufferLimits(x) == <<x.low, x.high>>

\* the transport pauses the protocol once more than high is buffered
MaybePauseProtocol(x) ==
    IF x.size > x.high THEN [x EXCEPT !.paused = TRUE] ELSE x

\* and resumes it once no more than low is buffered
MaybeResumeProtocol(x) ==
    IF x.paused /\ x.size <= x.low THEN [x EXCEPT !.paused = FALSE] ELSE x

\* transport.set_write_buffer_limits(high, low): ValueError unless
\* high >= low >= 0
SetWriteBufferLimits(x, high, low) ==
    IF high >= low /\ low >= 0
    THEN MaybePauseProtocol([x EXCEPT !.high = high, !.low = low])
    ELSE [x EXCEPT !.exc = "ValueError"]

\* the finally clause of flush with the marks passed in the order of
\* get_write_buffer_limits
FlushFinallySwapped(x) ==
    LET y == SetWriteBufferLimits(x, x.llow, x.lhigh)
    IN  [y EXCEPT !.pc = "done",
                  !.out = IF y.exc = "none" THEN "ok" ELSE "raised"]

\* the finally clause of flush: the marks are restored, and flush returns
\* or raises what the drain raised
FlushFinally(x) ==
    LET y == SetWriteBufferLimits(x, x.lhigh, x.llow)
    IN  [y EXCEPT !.pc = "done",
                  !.out = IF y.exc = "none" THEN "ok" ELSE "raised"]

\* await writer.drain(): raises when the connection is lost, returns at
\* once when the protocol is not paused, and suspends otherwise
Drain(x) ==
    IF x.lost THEN FlushFinally([x EXCEPT !.exc = "ConnectionResetError"])
    ELSE IF ~x.paused THEN FlushFinally(x)
    ELSE [x EXCEPT !.pc = "drain"]

\* util.flush up to the first suspension
FlushBegin(x) ==
    LET lim == GetWriteBufferLimits(x)
        x1 == [x EXCEPT !.llow = lim[1], !.lhigh = lim[2],
                        !.low0 = x.low, !.high0 = x.high,
                        !.exc = "none", !.out = "none", !.pc = "idle",
                        !.nflush = x.nflush + 1]
    IN  Drain(SetWriteBufferLimits(x1, 0, 0))

Flush ==
    /\ xport.pc \in {"idle", "done"}
    /\ xport.nflush < MaxFlushes
    /\ xport' = FlushBegin(xport)
    /\ UNCHANGED <<session, facade>>

\* flush resumes once the waiter of its drain is resolved
FlushResume ==
    /\ xport.pc = "woken"
    /\ xport' = FlushFinally(xport)
    /\ UNCHANGED <<session, facade>>

\* the task in flush is cancelled while its drain is suspended
FlushCancel ==
    /\ xport.pc = "drain"
    /\ xport' = [xport EXCEPT !.pc = "woken", !.exc = "CancelledError"]
    /\ UNCHANGED <<session, facade>>

\* transport.write: a byte more is buffered
Write ==
    /\ ~xport.lost
    /\ xport.size < MaxSize
    /\ xport' = MaybePauseProtocol([xport EXCEPT !.size = xport.size + 1])
    /\ UNCHANGED <<session, facade>>

\* the event loop writes a buffered byte out; a protocol that is resumed
\* resolves the waiter of a suspended drain
Sent ==
    /\ ~xport.lost
    /\ xport.size > 0
    /\ LET y == MaybeResumeProtocol([xport EXCEPT !.size = xport.size - 1])
       IN  xport' = IF xport.pc = "drain" /\ ~y.paused
                    THEN [y EXCEPT !.pc = "woken"] ELSE y
    /\ UNCHANGED <<session, facade>>

\* the connection is lost: the buffer is dropped and a suspended drain
\* raises
ConnectionLost ==
    /\ ~xport.lost
    /\ LET y == [xport EXCEPT !.lost = TRUE, !.size = 0]
       IN  xport' = IF xport.pc = "drain"
                    THEN [y EXCEPT !.pc = "woken",
                                   !.exc = "ConnectionResetError"]
                    ELSE y
    /\ UNCHANGED <<session, facade>>

FlushNext ==
    \/ Flush
    \/ FlushResume
    \/ FlushCancel
    \/ Write
    \/ Sent
    \/ ConnectionLost

\* the transports flush is called with: their marks, what they have
\* buffered and whether the protocol is paused
FlushInputs ==
    {[NoFlush EXCEPT !.low = l, !.high = h, !.size = n, !.paused = p] :
        l \in 0..MaxMark, h \in 0..MaxMark, n \in 0..MaxSize,
        p \in BOOLEAN}

InitFlush ==
    /\ InitSession
    /\ facade = NoCall
    /\ xport \in {x \in FlushInputs :
                    /\ x.low <= x.high
                    /\ x.size > x.high => x.paused
                    /\ x.size <= x.low => ~x.paused}

\* flush on a transport of any marks
SpecFlush == InitFlush /\ [][FlushNext]_vars

\* ---- the claims ----

\* the session states as the handles show them
IsIdle == Idle(Cur)
IsRunning ==
    /\ reader # 0 /\ writer # 0
    /\ reader_task # 0 /\ writer_task # 0 /\ bh_tasks # 0

ConnectOver == ev.t = "ret" /\ ev.op = "connect"
DisconnectOver == ev.t = "ret" /\ ev.op = "disconnect"

\* C1: when a connect call returns normally the session is RUNNING (the
\* transport, the reader task, the writer task and the gather are set), and
\* when it raises the session is IDLE (every handle is empty).
C1_ConnectEndsRunningOrIdle ==
    ConnectOver => IF ev.out = "ok" THEN IsRunning ELSE IsIdle

\* C2: a connect call that finds the session not IDLE raises StateError: it
\* never goes on to the connection attempt.
C2_ConnectOnlyFromIdle ==
    ev.t = "begin" /\ ev.op = "connect" => ev.idle0

\* C3: every call that ends on a disconnect task on which an earlier call
\* has ended, ends with the outcome of that earlier call.
C3_SameOutcomeForAllCallers ==
    ev.t = "ret" /\ ev.first # "none" => ev.dout = ev.first

\* C4: when a disconnect call is over, whether it returned or raised, the
\* session is IDLE.
C4_DisconnectEndsIdle ==
    DisconnectOver => IsIdle

InDisconnect(u) == users[u].op = "disconnect" /\ users[u].pc # "idle"

\* C5: every disconnect call is over in the end (it returns or raises).
C5_DisconnectCompletes ==
    \A u \in Users : InDisconnect(u) ~> ~InDisconnect(u)

\* C6: when the disconnect was requested by a caller while both
\* loop tasks were running, every message that was queued at the request has
\* been passed to the send primitive, and flush() has returned, when the
\* disconnect task cancels the writer task.
C6_DrainedWhenRequestedRunning ==
    ev.t = "cancel" /\ ev.h => ev.drained /\ ev.flushed

IsPrefix(a, b) == Len(a) <= Len(b) /\ SubSeq(b, 1, Len(a)) = a

\* C7: the messages the writer loop has passed to the send primitive are a
\* prefix of the messages enqueued in the session, in the order they were
\* enqueued.
C7_SentIsPrefixOfEnqueued ==
    IsPrefix(hist.sent, hist.enq)

\* two messages were enqueued and both have been passed on, the second
\* while the writer task was suspended in the send of the first
C7_Witness ==
    /\ hist.enq = <<1, 2>> /\ hist.sent = <<1, 2>>
    /\ \E id \in DOMAIN tasks : tasks[id].pc = "send" /\ tasks[id].msg = 2

\* C8: when the reader task ended with fault Fr and the writer task ended
\* without a fault, the disconnect call raises Fr.
C8_ReaderFaultIsRaised ==
    DisconnectOver /\ ev.rres = "Fr" /\ ev.wres = "ok" => ev.out = "Fr"

\* C9: a connect call that fails raises ConnectError with the fault as its
\* cause and the failed phase in its message when the fault is an Exception,
\* and the fault itself (CancelledError, KeyboardInterrupt) otherwise.
C9_ConnectFailureIsWrapped ==
    ConnectOver /\ ev.out # "ok" =>
       IF IsException(ev.err)
       THEN ev.out = "ConnectError" /\ ev.cause = ev.err /\ ev.phase = ev.eph
       ELSE ev.out = ev.err

\* the result of a loop task is a fault
LoopFault(r) == r \notin {"none", "pending", "ok", "cancelled"}

\* C10: when a loop task ended with a fault the disconnect call raises the
\* fault the gather holds; when both loop tasks ended without a fault and
\* the disconnect task did not fail, the disconnect call returns normally.
C10_FirstLoopFaultIsRaised ==
    DisconnectOver =>
       /\ LoopFault(ev.rres) \/ LoopFault(ev.wres) => ev.out = ev.gres
       /\ (/\ ev.rres \in {"ok", "none"} /\ ev.wres \in {"ok", "none"}
           /\ ev.dres = "ok") => ev.out = "ok"

\* a loop task, done
LoopTaskDone(id) ==
    tasks[id].kind \in {"reader", "writer"} /\ tasks[id].pc = "done"

\* C11: a loop task that was cancelled ends as a clean completion (never as
\* a cancelled task), and the gather never reports a cancellation: it
\* reports success or the fault of a loop.
C11_CancelledLoopEndsClean ==
    /\ \A id \in DOMAIN tasks :
          LoopTaskDone(id) => tasks[id].res # "cancelled"
    /\ \A g \in DOMAIN gathers :
          gathers[g].st = "done" => gathers[g].res # "CancelledError"

\* C12: the reader task of the session passes every message it received
\* to the on-message hook, once and in the order of arrival, and while it
\* waits in the receive primitive no invocation of the hook is under way.
C12_DispatchedInOrderOneAtATime ==
    /\ hist.disp = hist.arr
    /\ \A i, j \in DOMAIN hist.disp : i < j => hist.disp[i] < hist.disp[j]
    /\ hist.open <= 1
    /\ reader_task # 0 /\ tasks[reader_task].pc = "recv" => hist.open = 0

\* three messages were dispatched, and the hook is waiting on the third
C12_Witness ==
    /\ Len(hist.disp) = 3 /\ hist.open = 1
    /\ reader_task # 0 /\ tasks[reader_task].pc = "hook"
    /\ tasks[reader_task].msg = hist.disp[3]

\* the tasks of a kind that are not done
LiveOf(kind) ==
    {id \in DOMAIN tasks : tasks[id].kind = kind /\ tasks[id].pc # "done"}

\* the transports that are not closed
OpenTransports ==
    {tr \in DOMAIN transports : transports[tr] \in {"open", "closing"}}

\* C13: at any time at most one reader task and at most one writer task are
\* not done, and at most one transport is not closed.
C13_AtMostOneLive ==
    /\ Cardinality(LiveOf("reader")) <= 1
    /\ Cardinality(LiveOf("writer")) <= 1
    /\ Cardinality(OpenTransports) <= 1

\* the loop task of handle id ended with a fault
FaultedLoop(id) ==
    id # 0 /\ tasks[id].pc = "done" /\ LoopFault(tasks[id].res)

\* C14: a connect that follows a complete cycle begins with the session
\* IDLE, as on a fresh session (no transport, no task handle left by the
\* earlier cycle), and only messages enqueued in the session under way are
\* passed to the send primitive.
C14_ReusableAfterCycle ==
    /\ ev.t = "begin" /\ ev.re => ev.idle0
    /\ Range(hist.sent) \subseteq Range(hist.enq)

\* C25: a disconnect call on a session that is IDLE (no connect call in
\* progress) makes a disconnect task that ends in its first step, normally,
\* having cancelled nothing and closed nothing; the call returns normally
\* and leaves the session IDLE; and no disconnect call, whatever the state
\* it is made in, raises StateError.
C25_DisconnectFromAnyState ==
    /\ ev.start /\ ev.i0 =>
          /\ ev.t = "none"
          /\ dc_task # 0 /\ tasks[dc_task].pc = "done"
          /\ tasks[dc_task].res = "ok"
          /\ reader = 0 /\ writer = 0 /\ reader_task = 0 /\ writer_task = 0
    /\ DisconnectOver /\ ev.i0 /\ ev.first = "none" =>
          ev.out = "ok" /\ IsIdle
    /\ DisconnectOver => ev.out # "StateError"

\* a disconnect call made on the IDLE session after a connect/disconnect
\* cycle is over
C25_Witness ==
    /\ DisconnectOver /\ ev.i0 /\ ev.first = "none" /\ ev.out = "ok"
    /\ hist.nconn > 0 /\ hist.ndisc = 2 /\ IsIdle

\* a step starts to close a transport
CloseStarted ==
    \E tr \in DOMAIN transports :
       transports[tr] = "open" /\ transports'[tr] # "open"

\* a step empties or overwrites a transport handle that holds a transport
\* which is not closed
OpenHandleLost ==
    \/ writer # 0 /\ writer' # writer
                  /\ transports[writer] \in {"open", "closing"}
    \/ reader # 0 /\ reader' # reader
                  /\ transports[reader] \in {"open", "closing"}

\* C24: a transport is closed by the disconnect task only, and no step
\* empties or overwrites a transport handle whose transport is still open.
C24_TransportOwnership ==
    /\ [][CloseStarted => ev'.t = "close"]_vars
    /\ [][~OpenHandleLost]_vars

\* C23 as stated: when the gather of the loop tasks is resolved, both loop
\* tasks are done.
C23_ResolvedOnlyWhenBothDone ==
    ev.gset # "none" => ev.gn = 2 /\ ev.go # "pending"

\* C23, amended: the gather is resolved by the done callback of the first
\* loop task that did not return normally, with that task's fault
\* (CancelledError for a task that ended cancelled), also while the other
\* loop task is still running; otherwise it is resolved once both are done,
\* with success; and a gather whose two children have been seen is done.
C23_ResolvedByFirstFaultOrBothDone ==
    /\ ev.gset # "none" =>
          IF ev.gset = "ok"
          THEN ev.gn = 2 /\ ev.gc = "ok" /\ ev.go = "ok"
          ELSE /\ ev.gc # "ok"
               /\ ev.gset = IF ev.gc = "cancelled" THEN "CancelledError"
                            ELSE ev.gc
               /\ ev.gn = 1 \/ ev.go = "ok"
    /\ \A g \in DOMAIN gathers :
          gathers[g].nfin = 2 /\ gathers[g] # DeadGather
             => gathers[g].st = "done"

\* the gather is resolved with the reader's fault while the writer task is
\* still running
C23_Witness ==
    /\ ev.gset = "Fr" /\ ev.gc = "Fr" /\ ev.go = "pending" /\ ev.gn = 1
    /\ writer_task # 0 /\ tasks[writer_task].pc # "done"

\* C22: when wait_closed raises in the disconnect task, the disconnect task
\* ends normally if the fault is the one the reader task or the writer task
\* ended with, and ends with that fault otherwise.
C22_CloseFaultDeduplicated ==
    ev.cerr # "none" =>
       IF ev.cerr \in {ev.rex, ev.wex} THEN ev.cres = "ok"
       ELSE ev.cres = ev.cerr

\* a step empties a task handle or a transport handle of the session
HandleEmptied ==
    \/ dc_task # 0 /\ dc_task' = 0
    \/ reader_task # 0 /\ reader_task' = 0
    \/ writer_task # 0 /\ writer_task' = 0
    \/ bh_tasks # 0 /\ bh_tasks' = 0
    \/ reader # 0 /\ reader' = 0
    \/ writer # 0 /\ writer' = 0

\* a call is over that ran disconnect(): a disconnect call, or a connect
\* call that failed
RanDisconnect == ev.t = "ret" /\ (ev.op = "disconnect" \/ ev.out # "ok")

\* C21 as stated: only _cleanup empties a handle, and _cleanup runs once
\* per cycle: never a second time for calls that waited for the same
\* disconnect task.
C21_CleanupOncePerCycle ==
    /\ [][HandleEmptied => ev'.cl # "none"]_vars
    /\ [](ev.cl # "none" => ev.first = "none")

\* C21, amended: only _cleanup empties a handle, and every call that ran
\* disconnect() has run _cleanup when it is over (once per call, in the
\* finally clause of _wait_disconnect).
C21_CleanupOncePerCall ==
    /\ [][HandleEmptied => ev'.cl # "none"]_vars
    /\ [](RanDisconnect => ev.cl # "none")

\* _cleanup runs for the second time in one teardown: two calls waited for
\* the same disconnect task
C21_Witness ==
    /\ RanDisconnect /\ ev.cl = "ok" /\ ev.first # "none"

\* C20: whenever _cleanup runs, its assert holds: the reader, writer and
\* join handles (and the disconnect handle) are empty or hold a task that
\* is done.
C20_CleanupAssertHolds ==
    ev.cl # "none" =>
       /\ ev.cl = "ok"
       /\ ev.rres # "pending" /\ ev.wres # "pending" /\ ev.gres # "pending"

\* the session holds a loop task that ended with a fault
LoopFaulted == FaultedLoop(reader_task) \/ FaultedLoop(writer_task)

\* the loop tasks of the session are stopped and its transport is closed
TornDown ==
    /\ reader_task = 0 \/ tasks[reader_task].pc = "done"
    /\ writer_task = 0 \/ tasks[writer_task].pc = "done"
    /\ writer = 0 \/ transports[writer] \notin {"open", "closing"}

\* C19: a loop that raises a fault has scheduled a disconnect when it ends,
\* and the session never holds a loop task that ended with a fault without
\* holding a disconnect task; the step in which the loop task ends with the
\* fault ends no call of a caller; and from then on, with no further call,
\* both loop tasks get stopped and the transport gets closed.
C19_LoopFaultSchedulesDisconnect ==
    /\ [](ev.fault # "none" => dc_task # 0)
    /\ [](LoopFaulted => dc_task # 0)
    /\ [][ev'.fault # "none" => users' = users]_vars
    /\ LoopFaulted ~> TornDown


\* from the queue and not marked consumed
Sending ==
    IF writer_task # 0 /\ tasks[writer_task].pc = "send" THEN 1 ELSE 0

\* C18: the queue's count of unconsumed messages is the number of messages
\* queued plus the one being sent; task_done() of the writer loop never
\* raises (no message is marked consumed twice or without having been
\* dequeued); and when the queue ends the disconnect task's wait for it,
\* every message put on the queue has had its send attempt.
C18_WriterAccounting ==
    /\ unfinished = Len(outgoing) + Sending
    /\ ev.td # "ValueError"
    /\ ev.joined => ev.alls

\* C17: the disconnect task cancels the writer in forced mode exactly when
\* the reader task or the writer task was done at its first step; a forced
\* cancel happens in that first step, before any wait for the queue and
\* with no flush; and a disconnect task that a loop's exception handler
\* scheduled finds a loop task done at its first step (it is forced).
C17_ForcedExactlyOnDoneLoop ==
    /\ ev.t = "cancel" /\ ev.mode = "forced"
           => ev.start /\ ev.force /\ ~ev.flushed
    /\ ev.t = "cancel" /\ ev.start => (ev.mode = "forced" <=> ev.force)
    /\ ev.start /\ ev.lf => ev.force

\* C16: when the disconnect task cancels the reader task, the writer task
\* is done (or the session holds none), and when it goes on to close the
\* transport the reader task and the writer task are done (or the session
\* holds none).
C16_WriterThenReaderThenClose ==
    /\ ev.t = "stopr" => ev.wdone
    /\ ev.t = "close" => ev.rdone /\ ev.wdone

\* C15: at most one disconnect task is not done, it is the one the session
\* holds, and while the session holds a disconnect task (running, or done
\* and not cleaned up) no step creates another: the handle stays or is
\* erased.
C15_OneDisconnectTask ==
    /\ [](/\ Cardinality(LiveOf("dc")) <= 1
          /\ LiveOf("dc") \subseteq {dc_task})
    /\ [][dc_task # 0 => dc_task' \in {0, dc_task}]_vars

\* two callers wait for the one disconnect task, and a loop task that
\* ended with a fault has asked for a disconnect too
C15_Witness ==
    /\ dc_task # 0 /\ tasks[dc_task].pc # "done"
    /\ \A u \in Users : users[u].pc = "dcwait" /\ users[u].aw = dc_task
    /\ FaultedLoop(reader_task)

\* C26: get_events returns every event already queued, in queue order and
\* without waiting, whenever at least one is queued; only when none is
\* queued does it fall back to pull_event, and then it returns a list of at
\* most one event.  pull_event with wait=False returns None without waiting
\* when the event queue is empty.
C26_FacadeEventRetrieval ==
    /\ (facade.call = "get_events" /\ facade.q0 # <<>>) =>
          /\ facade.rk = "list"
          /\ facade.ret = [i \in 1..Len(facade.q0) |-> facade.q0[i]]
          /\ facade.q = <<>>
          /\ ~facade.waited
    /\ facade.call = "get_events" => (facade.fell <=> facade.q0 = <<>>)
    /\ (facade.call = "get_events" /\ facade.fell /\ facade.rk = "list") =>
          Len(facade.ret) <= 1
    /\ (facade.call = "pull_event" /\ facade.wait = "False"
          /\ facade.q0 = <<>>) =>
          /\ facade.rk = "None"
          /\ facade.ret = <<>>
          /\ ~facade.waited

\* get_events found two events or more and returned
C26_Witness ==
    /\ facade.call = "get_events"
    /\ Len(facade.q0) >= 2
    /\ facade.rk = "list"

\* C27: flush leaves the write-buffer limits of the transport unchanged:
\* once flush has completed, whether its drain returned or raised, the low
\* and the high water mark are what they were before the call; and while
\* the drain is awaited both marks are 0.
C27_FlushKeepsLimits ==
    /\ xport.pc = "done" =>
          /\ xport.low = xport.low0
          /\ xport.high = xport.high0
    /\ xport.pc \in {"drain", "woken"} =>
          /\ xport.low = 0
          /\ xport.high = 0

\* a flush whose drain raised has completed on a transport whose marks
\* differed and were not 0
C27_Witness ==
    /\ xport.pc = "done"
    /\ xport.exc \in {"CancelledError", "ConnectionResetError"}
    /\ 0 < xport.low0
    /\ xport.low0 < xport.high0

\* ---- types ----
TypeOK ==
    /\ reader \in 0..Len(transports)
    /\ writer = reader
    /\ reader_task \in 0..Len(tasks)
    /\ writer_task \in 0..Len(tasks)
    /\ dc_task \in 0..Len(tasks)
    /\ bh_tasks \in 0..Len(gathers)
    /\ unfinished \in 0..MaxMsgs

====
